---- MODULE Spec2Model ----
(***************************************************************************)
(* A model of the channel based connection pool (channel.go, conn.go,      *)
(* pool.go).  The pool is one channelPool value shared by NumProcs         *)
(* goroutines.  Every goroutine repeatedly calls Get, Len, the pool's      *)
(* Close, or the Close of a handle (PoolRconn) returned by an earlier Get. *)
(* Each call is cut into steps at the points where the code synchronises:  *)
(* a mutex section, a channel operation, the call of the factory.          *)
(***************************************************************************)
EXTENDS Integers, Sequences, FiniteSets, TLC

\* ---- bounds of the model ------------------------------------------------
NumProcs == 2           \* goroutines using the pool
MaxCap == 1             \* maxCap given to NewChannelPool
MaxConns == 2           \* connections that may exist in one run
MaxHandles == MaxConns + 1  \* handles (PoolRconn values) Get may wrap in one run

Procs == 1..NumProcs
Conns == 1..MaxConns

VARIABLES
    rconns,     \* c.rconns: "chan" (the channel made by NewChannelPool) or "nil"
    factory,    \* c.factory: "func" or "nil"
    mu,         \* c.mu: 0 when unlocked, else the goroutine holding it
    chBuf,      \* the channel's buffer: a sequence of connections, oldest first
    chClosed,   \* whether close() was called on the channel
    created,    \* number of connections the factory has returned so far
    closeCount, \* per connection: how often its own Close() was invoked
    handles,    \* the PoolRconn values wrapped so far: [conn, unusable, closes]
    pc,         \* per goroutine: the step it is at
    l_rconns,   \* per goroutine: the local variable rconns of Get / Close / Len
    l_conn,     \* per goroutine: the parameter rconn of put (0: none)
    ret,        \* what the step just taken returned to its caller, if it returned
    lastClose,  \* the underlying Close() the step just taken invoked, if any
    shutdown,   \* record of the capture-and-clear steps of Close that saw a channel
    solo,       \* the Get-then-Close episode running without any other operation
    cons        \* the call of NewChannelPool: its arguments, position and result

vars == << rconns, factory, mu, chBuf, chClosed, created, closeCount, handles,
           pc, l_rconns, l_conn, ret, lastClose, shutdown, solo, cons >>

poolVars == << rconns, factory, mu >>
chanVars == << chBuf, chClosed >>

NoRet == [p |-> 0, op |-> "none", out |-> "none", via |-> "none", val |-> 0]
NoSolo == [p |-> 0, len0 |-> 0, h |-> 0]
NoClose == [conn |-> 0, out |-> "none"]
NoShutdown == [n |-> 0, idle |-> {}, taken |-> {}, returned |-> FALSE]

\* ---- pure helpers ---------------------------------------------------------

\* Get's test of the captured reference (channel.go line 65)
GetClosedNever(ref) == FALSE
GetClosed(ref) == ref = "nil"

\* put's test of c.rconns under the mutex (channel.go line 98)
PutClosedNever(ref) == FALSE
PutClosed(ref) == ref = "nil"

\* whether the receive case of Get's select is ready (channel.go line 72)
CanReceiveNever(buf) == FALSE
CanReceive(buf) == buf # << >>

\* whether the send case of put's select is ready (channel.go line 106)
HasRoomNever(buf) == FALSE
HasRoomAlways(buf) == TRUE
HasRoomOffByOne(buf) == Len(buf) <= MaxCap
HasRoom(buf) == Len(buf) < MaxCap

\* whether Close's range loop over the closed channel has a next element
\* (channel.go line 126)
DrainMoreNever(buf) == FALSE
DrainMore(buf) == buf # << >>

\* len() of a channel reference: a nil channel has length 0
ChanLen(ref, buf) == IF ref = "nil" THEN 0 ELSE Len(buf)

\* what Len() returns when it runs alone now
LenNow == ChanLen(rconns, chBuf)

\* what Len() returns after put ran alone on pool reference ref with buffer buf
\* (channel.go lines 98-111)
LenAfterPut(ref, buf) ==
    IF PutClosed(ref) THEN 0
    ELSE IF HasRoom(buf) THEN Len(buf) + 1
    ELSE Len(buf)

\* the outcomes the underlying connection's Close() may have
CloseOutcomes == {"nil", "closeErr"}

\* Get calls that may still wrap a handle or call the factory
GetsInFlight ==
    Cardinality({q \in Procs : pc[q] \in {"get_select", "get_factory", "get_created"}})

\* handles their holder has not closed yet
OpenHandles == {h \in DOMAIN handles : handles[h].closes = 0}

\* the underlying rconn.Close() of connection c with outcome out
ConnClosed(c, out) ==
    /\ closeCount' = [closeCount EXCEPT ![c] = @ + 1]
    /\ lastClose' = [conn |-> c, out |-> out]

\* no underlying Close() in this step
NoConnClosed ==
    /\ closeCount' = closeCount
    /\ lastClose' = NoClose

\* wrapRconn: a fresh PoolRconn around c
wrapRconn(c) == [conn |-> c, unusable |-> FALSE, closes |-> 0]

\* the value a call returns
Return(p, op, out, via, val) ==
    ret' = [p |-> p, op |-> op, out |-> out, via |-> via, val |-> val]

\* the monitor of a Get-then-Close episode: a step of another goroutine ends it
SoloKeep(p) == IF solo.p = p THEN solo ELSE NoSolo

\* NewChannelPool has returned the pool (line 50); its arguments are not kept
PoolBuilt == [state |-> "done", out |-> "pool"]

\* NewChannelPool with a factory that does not fail: initialCap connections buffered
Init ==
    \E initialCap \in 0..MaxCap :
        /\ rconns = "chan"
        /\ factory = "func"
        /\ mu = 0
        /\ chBuf = [i \in 1..initialCap |-> i]
        /\ chClosed = FALSE
        /\ created = initialCap
        /\ closeCount = [c \in Conns |-> 0]
        /\ handles = << >>
        /\ pc = [p \in Procs |-> "idle"]
        /\ l_rconns = [p \in Procs |-> "nil"]
        /\ l_conn = [p \in Procs |-> 0]
        /\ ret = NoRet
        /\ lastClose = NoClose
        /\ shutdown = NoShutdown
        /\ solo = NoSolo
        /\ cons = PoolBuilt

\* ---- Get ------------------------------------------------------------------

\* Get, line 64: rconns := c.getRconns() (lock, read, unlock)
GetRconns(p) ==
    /\ pc[p] = "idle"
    /\ UNCHANGED cons
    /\ mu = 0
    /\ Len(handles) + GetsInFlight < MaxHandles
    /\ created + GetsInFlight < MaxConns
    /\ l_rconns' = [l_rconns EXCEPT ![p] = rconns]
    /\ pc' = [pc EXCEPT ![p] = "get_select"]
    /\ ret' = NoRet
    /\ solo' = IF rconns = "chan" /\ \A q \in Procs \ {p} : pc[q] \in {"idle", "panicked"}
               THEN [p |-> p, len0 |-> LenNow, h |-> 0]
               ELSE NoSolo
    /\ NoConnClosed
    /\ UNCHANGED << poolVars, chanVars, created, handles, l_conn, shutdown >>

\* Get, lines 65-78: the nil check and the select on the channel
GetSelect(p) ==
    /\ pc[p] = "get_select"
    /\ UNCHANGED cons
    /\ IF GetClosed(l_rconns[p])
       THEN \* line 66: return nil, ErrClosed
            /\ Return(p, "Get", "ErrClosed", "nil_rconns", 0)
            /\ pc' = [pc EXCEPT ![p] = "idle"]
            /\ solo' = NoSolo
            /\ UNCHANGED << chBuf, handles, shutdown >>
       ELSE IF CanReceive(chBuf)
       THEN \* lines 72-77: a connection is received and wrapped
            /\ chBuf' = Tail(chBuf)
            /\ handles' = Append(handles, wrapRconn(Head(chBuf)))
            /\ Return(p, "Get", "handle", "reuse", Len(handles) + 1)
            /\ pc' = [pc EXCEPT ![p] = "idle"]
            /\ solo' = IF solo.p = p THEN [solo EXCEPT !.h = Len(handles) + 1] ELSE NoSolo
            /\ shutdown' = IF shutdown.n > 0
                           THEN [shutdown EXCEPT !.taken = @ \cup {Head(chBuf)}]
                           ELSE shutdown
       ELSE IF chClosed
       THEN \* lines 72-75: a closed, empty channel yields nil
            /\ Return(p, "Get", "ErrClosed", "closed_chan", 0)
            /\ pc' = [pc EXCEPT ![p] = "idle"]
            /\ solo' = NoSolo
            /\ UNCHANGED << chBuf, handles, shutdown >>
       ELSE \* line 78: default
            /\ pc' = [pc EXCEPT ![p] = "get_factory"]
            /\ ret' = NoRet
            /\ solo' = SoloKeep(p)
            /\ UNCHANGED << chBuf, handles, shutdown >>
    /\ l_rconns' = [l_rconns EXCEPT ![p] = "nil"]
    /\ NoConnClosed
    /\ UNCHANGED << poolVars, chClosed, created, l_conn >>

\* Get, line 79: c.factory is read without the mutex and called
GetFactory(p) ==
    /\ pc[p] = "get_factory"
    /\ UNCHANGED cons
    /\ \/ \* the read yields nil: calling a nil func value panics
          /\ factory = "nil"
          /\ pc' = [pc EXCEPT ![p] = "panicked"]
          /\ Return(p, "Get", "panic", "nil_factory", 0)
          /\ solo' = NoSolo
       \/ \* the read yields the factory; it races with the write of line 118, so
          \* it may do so after that write too
          /\ pc' = [pc EXCEPT ![p] = "get_created"]
          /\ ret' = NoRet
          /\ solo' = IF factory = "nil" THEN NoSolo ELSE SoloKeep(p)
    /\ NoConnClosed
    /\ UNCHANGED << poolVars, chanVars, created, handles, l_rconns, l_conn, shutdown >>

\* Get, lines 79-84: the factory returns an error or a connection
GetCreatedFatal(p) ==
    /\ pc[p] = "get_created"
    /\ UNCHANGED cons
    /\ \/ /\ Return(p, "Get", "factoryErr", "create", 0)
          /\ solo' = NoSolo
          /\ rconns' = "nil"
          /\ UNCHANGED << created, handles, shutdown >>
       \/ /\ created' = created + 1
          /\ handles' = Append(handles, wrapRconn(created + 1))
          /\ Return(p, "Get", "handle", "create", Len(handles) + 1)
          /\ solo' = IF solo.p = p THEN [solo EXCEPT !.h = Len(handles) + 1] ELSE NoSolo
          /\ UNCHANGED shutdown
          /\ UNCHANGED rconns
    /\ pc' = [pc EXCEPT ![p] = "idle"]
    /\ NoConnClosed
    /\ UNCHANGED << factory, mu, chanVars, l_rconns, l_conn >>

GetCreated(p) ==
    /\ pc[p] = "get_created"
    /\ UNCHANGED cons
    /\ \/ \* lines 80-82
          /\ Return(p, "Get", "factoryErr", "create", 0)
          /\ solo' = NoSolo
          /\ UNCHANGED << created, handles, shutdown >>
       \/ \* line 84
          /\ created' = created + 1
          /\ handles' = Append(handles, wrapRconn(created + 1))
          /\ Return(p, "Get", "handle", "create", Len(handles) + 1)
          /\ solo' = IF solo.p = p THEN [solo EXCEPT !.h = Len(handles) + 1] ELSE NoSolo
          /\ UNCHANGED shutdown
    /\ pc' = [pc EXCEPT ![p] = "idle"]
    /\ NoConnClosed
    /\ UNCHANGED << poolVars, chanVars, l_rconns, l_conn >>

\* ---- the handle: PoolRconn -------------------------------------------------

\* PoolRconn.MarkUnusable, conn.go lines 34-36
MarkUnusableAll(h) ==
    /\ h \in OpenHandles
    /\ UNCHANGED cons
    /\ ~handles[h].unusable
    /\ handles' = [g \in DOMAIN handles |-> [handles[g] EXCEPT !.unusable = TRUE]]
    /\ ret' = NoRet
    /\ solo' = IF solo.h = h THEN solo ELSE NoSolo
    /\ NoConnClosed
    /\ UNCHANGED << poolVars, chanVars, created, pc, l_rconns, l_conn, shutdown >>

MarkUnusable(h) ==
    /\ h \in OpenHandles
    /\ UNCHANGED cons
    /\ ~handles[h].unusable
    /\ handles' = [handles EXCEPT ![h].unusable = TRUE]
    /\ ret' = NoRet
    /\ solo' = IF solo.h = h THEN solo ELSE NoSolo
    /\ NoConnClosed
    /\ UNCHANGED << poolVars, chanVars, created, pc, l_rconns, l_conn, shutdown >>

\* PoolRconn.Close, conn.go lines 22-30, on a handle its holder has not closed yet
PoolRconnCloseFallsThrough(p, h) ==
    /\ pc[p] = "idle"
    /\ UNCHANGED cons
    /\ h \in OpenHandles
    /\ handles' = [handles EXCEPT ![h].closes = @ + 1]
    /\ pc' = [pc EXCEPT ![p] = "put_lock"]
    /\ l_conn' = [l_conn EXCEPT ![p] = handles[h].conn]
    /\ ret' = NoRet
    /\ solo' = IF solo.p = p /\ solo.h = h THEN solo ELSE NoSolo
    /\ IF handles[h].unusable
       THEN \E out \in CloseOutcomes : ConnClosed(handles[h].conn, out)
       ELSE NoConnClosed
    /\ UNCHANGED << poolVars, chanVars, created, l_rconns, shutdown >>

PoolRconnClose(p, h) ==
    /\ pc[p] = "idle"
    /\ UNCHANGED cons
    /\ h \in OpenHandles
    /\ handles' = [handles EXCEPT ![h].closes = @ + 1]
    /\ IF handles[h].unusable
       THEN \* lines 23-25: the wrapped connection is really closed
            \E out \in CloseOutcomes :
                /\ ConnClosed(handles[h].conn, out)
                /\ Return(p, "HClose", out, "unusable", h)
                /\ UNCHANGED << pc, l_conn >>
                /\ solo' = IF solo.p = p /\ solo.h = h THEN solo ELSE NoSolo
       ELSE \* line 29: p.c.put(p.RpcAble); put line 91: the connection is not nil
            /\ pc' = [pc EXCEPT ![p] = "put_lock"]
            /\ l_conn' = [l_conn EXCEPT ![p] = handles[h].conn]
            /\ ret' = NoRet
            /\ solo' = IF solo.p = p /\ solo.h = h THEN solo ELSE NoSolo
            /\ NoConnClosed
    /\ UNCHANGED << poolVars, chanVars, created, l_rconns, shutdown >>

\* PoolRconn.Close, conn.go lines 22-30, called a second time on a handle: the
\* method keeps no record of an earlier call
PoolRconnCloseAgain(p, h) ==
    /\ pc[p] = "idle"
    /\ UNCHANGED cons
    /\ h \in DOMAIN handles
    /\ handles[h].closes = 1
    /\ handles' = [handles EXCEPT ![h].closes = @ + 1]
    /\ IF handles[h].unusable
       THEN \* lines 23-25
            \E out \in CloseOutcomes :
                /\ ConnClosed(handles[h].conn, out)
                /\ Return(p, "HClose", out, "unusable", h)
                /\ UNCHANGED << pc, l_conn >>
       ELSE \* line 29
            /\ pc' = [pc EXCEPT ![p] = "put_lock"]
            /\ l_conn' = [l_conn EXCEPT ![p] = handles[h].conn]
            /\ ret' = NoRet
            /\ NoConnClosed
    /\ solo' = NoSolo
    /\ UNCHANGED << poolVars, chanVars, created, l_rconns, shutdown >>

\* put, line 95: c.mu.Lock()
PutLock(p) ==
    /\ pc[p] = "put_lock"
    /\ UNCHANGED cons
    /\ mu = 0
    /\ mu' = p
    /\ pc' = [pc EXCEPT ![p] = "put_body"]
    /\ ret' = NoRet
    /\ solo' = SoloKeep(p)
    /\ NoConnClosed
    /\ UNCHANGED << rconns, factory, chanVars, created, handles, l_rconns, l_conn,
                    shutdown >>

\* put, lines 98-111, and the deferred c.mu.Unlock() of line 96
PutBody(p) ==
    /\ pc[p] = "put_body"
    /\ UNCHANGED cons
    /\ IF PutClosed(rconns)
       THEN \* lines 98-101: pool is closed, close passed rconn
            \E out \in CloseOutcomes :
                /\ ConnClosed(l_conn[p], out)
                /\ Return(p, "HClose", out, "closed", l_conn[p])
                /\ UNCHANGED chBuf
       ELSE IF chClosed
       THEN \* line 106 on a closed channel: a send on a closed channel panics
            /\ Return(p, "HClose", "panic", "closed_chan", l_conn[p])
            /\ NoConnClosed
            /\ UNCHANGED chBuf
       ELSE IF HasRoom(chBuf)
       THEN \* lines 106-107: c.rconns <- rconn
            /\ chBuf' = Append(chBuf, l_conn[p])
            /\ Return(p, "HClose", "nil", "insert", l_conn[p])
            /\ NoConnClosed
       ELSE \* lines 108-110: pool is full, close passed rconn
            \E out \in CloseOutcomes :
                /\ ConnClosed(l_conn[p], out)
                /\ Return(p, "HClose", out, "full", l_conn[p])
                /\ UNCHANGED chBuf
    /\ mu' = 0
    /\ pc' = [pc EXCEPT ![p] = IF ~PutClosed(rconns) /\ chClosed
                               THEN "panicked" ELSE "idle"]
    /\ l_conn' = [l_conn EXCEPT ![p] = 0]
    /\ solo' = SoloKeep(p)
    /\ UNCHANGED << rconns, factory, chClosed, created, handles, l_rconns, shutdown >>

\* ---- the pool's Close ------------------------------------------------------

\* Close, lines 115-117: lock, capture c.rconns, clear it
CloseLockNoClear(p) ==
    /\ pc[p] = "idle"
    /\ UNCHANGED cons
    /\ mu = 0
    /\ mu' = p
    /\ l_rconns' = [l_rconns EXCEPT ![p] = rconns]
    /\ rconns' = rconns
    /\ pc' = [pc EXCEPT ![p] = "close_factory"]
    /\ shutdown' = IF rconns = "nil" THEN shutdown
                   ELSE [shutdown EXCEPT !.n = @ + 1,
                                         !.idle = {chBuf[i] : i \in DOMAIN chBuf}]
    /\ ret' = NoRet
    /\ solo' = NoSolo
    /\ NoConnClosed
    /\ UNCHANGED << factory, chanVars, created, handles, l_conn >>

CloseLock(p) ==
    /\ pc[p] = "idle"
    /\ UNCHANGED cons
    /\ mu = 0
    /\ mu' = p
    /\ l_rconns' = [l_rconns EXCEPT ![p] = rconns]
    /\ rconns' = "nil"
    /\ pc' = [pc EXCEPT ![p] = "close_factory"]
    /\ shutdown' = IF rconns = "nil" THEN shutdown
                   ELSE [shutdown EXCEPT !.n = @ + 1,
                                         !.idle = {chBuf[i] : i \in DOMAIN chBuf}]
    /\ ret' = NoRet
    /\ solo' = NoSolo
    /\ NoConnClosed
    /\ UNCHANGED << factory, chanVars, created, handles, l_conn >>

\* Close, lines 118-119: clear c.factory, unlock
CloseUnlock(p) ==
    /\ pc[p] = "close_factory"
    /\ UNCHANGED cons
    /\ factory' = "nil"
    /\ mu' = 0
    /\ pc' = [pc EXCEPT ![p] = "close_check"]
    /\ ret' = NoRet
    /\ solo' = NoSolo
    /\ NoConnClosed
    /\ UNCHANGED << rconns, chanVars, created, handles, l_rconns, l_conn, shutdown >>

\* Close, lines 121-125: return if nothing was captured, else close(rconns)
CloseChan(p) ==
    /\ pc[p] = "close_check"
    /\ UNCHANGED cons
    /\ IF l_rconns[p] = "nil"
       THEN \* lines 121-123
            /\ pc' = [pc EXCEPT ![p] = "idle"]
            /\ Return(p, "Close", "return", "noop", 0)
            /\ UNCHANGED chClosed
       ELSE IF chClosed
       THEN \* line 125 on a closed channel: close of a closed channel panics
            /\ pc' = [pc EXCEPT ![p] = "panicked"]
            /\ Return(p, "Close", "panic", "closed_chan", 0)
            /\ UNCHANGED chClosed
       ELSE \* line 125
            /\ chClosed' = TRUE
            /\ pc' = [pc EXCEPT ![p] = "close_drain"]
            /\ ret' = NoRet
    /\ solo' = NoSolo
    /\ NoConnClosed
    /\ UNCHANGED << poolVars, chBuf, created, handles, l_rconns, l_conn, shutdown >>

\* Close, lines 126-128: one turn of the range loop over the closed channel
CloseDrain(p) ==
    /\ pc[p] = "close_drain"
    /\ UNCHANGED cons
    /\ IF DrainMore(chBuf)
       THEN \* line 127: rconn.Close(), its error dropped
            \E out \in CloseOutcomes :
                /\ ConnClosed(Head(chBuf), out)
                /\ chBuf' = Tail(chBuf)
                /\ ret' = NoRet
                /\ UNCHANGED << pc, l_rconns, shutdown >>
       ELSE \* the channel is closed and empty: the loop ends, Close returns
            /\ pc' = [pc EXCEPT ![p] = "idle"]
            /\ l_rconns' = [l_rconns EXCEPT ![p] = "nil"]
            /\ Return(p, "Close", "return", "drained", 0)
            /\ shutdown' = [shutdown EXCEPT !.returned = TRUE]
            /\ NoConnClosed
            /\ UNCHANGED chBuf
    /\ solo' = NoSolo
    /\ UNCHANGED << poolVars, chClosed, created, handles, l_conn >>

\* ---- Len -------------------------------------------------------------------

\* Len, line 131: c.getRconns()
LenGet(p) ==
    /\ pc[p] = "idle"
    /\ UNCHANGED cons
    /\ mu = 0
    /\ l_rconns' = [l_rconns EXCEPT ![p] = rconns]
    /\ pc' = [pc EXCEPT ![p] = "len_read"]
    /\ ret' = NoRet
    /\ solo' = NoSolo
    /\ NoConnClosed
    /\ UNCHANGED << poolVars, chanVars, created, handles, l_conn, shutdown >>

\* Len, line 131: len() of the captured channel
LenRead(p) ==
    /\ pc[p] = "len_read"
    /\ UNCHANGED cons
    /\ Return(p, "Len", "int", IF l_rconns[p] = "nil" THEN "nil_rconns" ELSE "chan",
              ChanLen(l_rconns[p], chBuf))
    /\ pc' = [pc EXCEPT ![p] = "idle"]
    /\ l_rconns' = [l_rconns EXCEPT ![p] = "nil"]
    /\ solo' = NoSolo
    /\ NoConnClosed
    /\ UNCHANGED << poolVars, chanVars, created, handles, l_conn, shutdown >>

\* ---- the system ------------------------------------------------------------

Next ==
    \/ \E p \in Procs : GetRconns(p)
    \/ \E p \in Procs : GetSelect(p)
    \/ \E p \in Procs : GetFactory(p)
    \/ \E p \in Procs : GetCreated(p)
    \/ \E h \in DOMAIN handles : MarkUnusable(h)
    \/ \E p \in Procs : \E h \in DOMAIN handles : PoolRconnClose(p, h)
    \/ \E p \in Procs : PutLock(p)
    \/ \E p \in Procs : PutBody(p)
    \/ \E p \in Procs : CloseLock(p)
    \/ \E p \in Procs : CloseUnlock(p)
    \/ \E p \in Procs : CloseChan(p)
    \/ \E p \in Procs : CloseDrain(p)
    \/ \E p \in Procs : LenGet(p)
    \/ \E p \in Procs : LenRead(p)

Spec == Init /\ [][Next]_vars

\* a goroutine inside a call keeps running (the Go scheduler), and one waiting
\* for c.mu gets it once it is free often enough (sync.Mutex hands the lock to
\* a starving waiter); nothing obliges a goroutine to start a call
Fairness ==
    \A p \in Procs :
        /\ WF_vars(GetSelect(p))
        /\ WF_vars(GetFactory(p))
        /\ WF_vars(GetCreated(p))
        /\ SF_vars(PutLock(p))
        /\ WF_vars(PutBody(p))
        /\ WF_vars(CloseUnlock(p))
        /\ WF_vars(CloseChan(p))
        /\ WF_vars(CloseDrain(p))
        /\ WF_vars(LenRead(p))

SpecFair == Spec /\ Fairness

\* callers that may close a handle a second time
NextReclose ==
    \/ Next
    \/ \E p \in Procs : \E h \in DOMAIN handles : PoolRconnCloseAgain(p, h)

SpecReclose == Init /\ [][NextReclose]_vars

\* ---- NewChannelPool --------------------------------------------------------

\* NewChannelPool, line 30: the configuration is accepted
ValidCapsOffByOne(initialCap, maxCap) ==
    ~(initialCap < 0 \/ maxCap < 0 \/ initialCap > maxCap)

ValidCaps(initialCap, maxCap) ==
    ~(initialCap < 0 \/ maxCap <= 0 \/ initialCap > maxCap)

\* a call NewChannelPool(initialCap, maxCap, factory) is about to run; the
\* factory fails at its failAt-th invocation (failAt = 0: it never fails)
InitNew ==
    \E initialCap \in -1..(MaxConns + 1) : \E maxCap \in -1..MaxConns :
      \E failAt \in 0..MaxConns :
        /\ cons = [initialCap |-> initialCap, maxCap |-> maxCap, failAt |-> failAt,
                   calls |-> 0, state |-> "check", out |-> "none"]
        /\ rconns = "nil"
        /\ factory = "nil"
        /\ mu = 0
        /\ chBuf = << >>
        /\ chClosed = FALSE
        /\ created = 0
        /\ closeCount = [c \in Conns |-> 0]
        /\ handles = << >>
        /\ pc = [p \in Procs |-> "idle"]
        /\ l_rconns = [p \in Procs |-> "nil"]
        /\ l_conn = [p \in Procs |-> 0]
        /\ ret = NoRet
        /\ lastClose = NoClose
        /\ shutdown = NoShutdown
        /\ solo = NoSolo

\* NewChannelPool, lines 30-37: reject an invalid configuration, else build the
\* pool around a channel of capacity maxCap
NewCheck ==
    /\ cons.state = "check"
    /\ IF ~ValidCaps(cons.initialCap, cons.maxCap)
       THEN \* lines 30-32
            /\ cons' = [cons EXCEPT !.state = "done", !.out = "invalid"]
            /\ UNCHANGED << rconns, factory >>
       ELSE IF cons.maxCap < 0
       THEN \* line 35: make(chan, n) with n < 0 panics
            /\ cons' = [cons EXCEPT !.state = "done", !.out = "panic"]
            /\ UNCHANGED << rconns, factory >>
       ELSE \* lines 34-37
            /\ cons' = [cons EXCEPT !.state = "fill"]
            /\ rconns' = "chan"
            /\ factory' = "func"
    /\ ret' = NoRet
    /\ NoConnClosed
    /\ UNCHANGED << mu, chanVars, created, handles, pc, l_rconns, l_conn,
                    shutdown, solo >>

\* NewChannelPool, lines 41-47: one turn of the fill loop
NewFillNoClose ==
    /\ cons.state = "fill"
    /\ cons.calls < cons.initialCap
    /\ IF cons.calls + 1 = cons.failAt
       THEN /\ cons' = [cons EXCEPT !.calls = @ + 1, !.state = "done",
                                    !.out = "factoryErr"]
            /\ UNCHANGED << created, chBuf >>
       ELSE IF Len(chBuf) < cons.maxCap
       THEN /\ created' = created + 1
            /\ chBuf' = Append(chBuf, created + 1)
            /\ cons' = [cons EXCEPT !.calls = @ + 1]
       ELSE /\ created' = created + 1
            /\ cons' = [cons EXCEPT !.calls = @ + 1, !.state = "blocked"]
            /\ UNCHANGED chBuf
    /\ ret' = NoRet
    /\ NoConnClosed
    /\ UNCHANGED << poolVars, chClosed, handles, pc, l_rconns, l_conn,
                    shutdown, solo >>

NewFill ==
    /\ cons.state = "fill"
    /\ cons.calls < cons.initialCap
    /\ IF cons.calls + 1 = cons.failAt
       THEN \* lines 42-44: the factory fails; c.Close() is called next
            /\ cons' = [cons EXCEPT !.calls = @ + 1, !.state = "closing"]
            /\ UNCHANGED << created, chBuf >>
       ELSE IF Len(chBuf) < cons.maxCap
       THEN \* line 47: c.rconns <- rconn
            /\ created' = created + 1
            /\ chBuf' = Append(chBuf, created + 1)
            /\ cons' = [cons EXCEPT !.calls = @ + 1]
       ELSE \* line 47 on a full channel: the send blocks for ever
            /\ created' = created + 1
            /\ cons' = [cons EXCEPT !.calls = @ + 1, !.state = "blocked"]
            /\ UNCHANGED chBuf
    /\ ret' = NoRet
    /\ NoConnClosed
    /\ UNCHANGED << poolVars, chClosed, handles, pc, l_rconns, l_conn,
                    shutdown, solo >>

\* NewChannelPool, line 44: the steps of c.Close(), run by the constructor
NewClose ==
    /\ cons.state = "closing"
    /\ ret.op # "Close"
    /\ \/ CloseLock(1)
       \/ CloseUnlock(1)
       \/ CloseChan(1)
       \/ CloseDrain(1)

\* NewChannelPool, line 45: c.Close() has returned; return nil and the error
NewFailed ==
    /\ cons.state = "closing"
    /\ ret.op = "Close"
    /\ cons' = [cons EXCEPT !.state = "done", !.out = "factoryErr"]
    /\ ret' = NoRet
    /\ NoConnClosed
    /\ UNCHANGED << poolVars, chanVars, created, handles, pc, l_rconns, l_conn,
                    shutdown, solo >>

\* NewChannelPool, line 50: the loop is over; return the pool
NewReturn ==
    /\ cons.state = "fill"
    /\ cons.calls >= cons.initialCap
    /\ cons' = [cons EXCEPT !.state = "done", !.out = "pool"]
    /\ ret' = NoRet
    /\ NoConnClosed
    /\ UNCHANGED << poolVars, chanVars, created, handles, pc, l_rconns, l_conn,
                    shutdown, solo >>

NextNew ==
    \/ NewCheck
    \/ NewFill
    \/ NewClose
    \/ NewFailed
    \/ NewReturn

SpecNew == InitNew /\ [][NextNew]_vars

\* ---- types -----------------------------------------------------------------

TypeOK ==
    /\ rconns \in {"chan", "nil"}
    /\ factory \in {"func", "nil"}
    /\ mu \in 0..NumProcs
    /\ chBuf \in Seq(Conns)
    /\ chClosed \in BOOLEAN
    /\ created \in 0..MaxConns
    /\ Len(handles) <= MaxHandles
    /\ cons.state \in {"check", "fill", "closing", "blocked", "done"}
    /\ cons.out \in {"none", "invalid", "panic", "factoryErr", "pool"}

\* ---- observations used by the properties ------------------------------------

\* connections handed out by Get and not yet closed by their holder
CheckedOut == Cardinality(OpenHandles)

\* goroutine p takes a step
Steps(p) == pc'[p] # pc[p] \/ (pc[p] = "close_drain" /\ chBuf' # chBuf)

\* ---- C1 ----------------------------------------------------------------------
\* C1: in every reachable state, whatever Get, handle Close (marked unusable or
\* not) and pool Close calls are interleaved, the value Len() returns now, and
\* the value any Len() call has just returned, lies in 0..maxCap.
C1_LenWithinCap ==
    /\ LenNow \in 0..MaxCap
    /\ ret.op = "Len" => ret.val \in 0..MaxCap

\* a Len() call returned maxCap although more connections exist than maxCap
C1_Witness ==
    /\ ret.op = "Len"
    /\ ret.val = MaxCap
    /\ created > MaxCap

\* ---- C2 ----------------------------------------------------------------------
\* C2 as claimed: checked-out connections plus idle connections never exceed
\* maxCap.
C2_CheckedOutPlusIdleWithinCap == CheckedOut + Len(chBuf) <= MaxCap

\* C2 as amended: the connections idle in the buffer never exceed maxCap, in
\* every state, the drain of a shut down pool included; checked-out connections
\* are not counted against maxCap.
C2_IdleWithinCap == Len(chBuf) <= MaxCap

\* the buffer is full while further connections are checked out
C2_Witness ==
    /\ Len(chBuf) = MaxCap
    /\ CheckedOut > 0
    /\ ret.op = "Get"
    /\ ret.out = "handle"

\* ---- C3 ----------------------------------------------------------------------
\* C3: a Get concurrent with the pool's Close ends by returning a handle, the
\* closed-pool error or the factory's error; it never calls the factory
\* reference after Close has cleared it.
C3_GetNeverCallsClearedFactory ==
    /\ ret.op = "Get" => ret.out \in {"handle", "ErrClosed", "factoryErr"}
    /\ \A p \in Procs : pc[p] # "panicked"

\* ---- C4 ----------------------------------------------------------------------
\* the pool's Close has performed its clear step (lines 115-119)
Cleared == rconns = "nil" /\ factory = "nil"

\* C4: shutdown is terminal.  Once Close has cleared c.rconns and c.factory they
\* stay nil; a Get that starts afterwards captures nil and returns the
\* closed-pool error in its next step, without reaching the factory call and
\* without touching the buffer; a Len() that starts afterwards returns 0.
C4_ShutdownIsTerminal ==
    [][ /\ Cleared => Cleared'
        /\ \A p \in Procs :
            /\ (Cleared /\ pc[p] = "idle" /\ pc'[p] \in {"get_select", "len_read"})
                  => l_rconns'[p] = "nil"
            /\ (pc[p] \in {"get_select", "len_read"} /\ l_rconns[p] = "nil")
                  => Cleared
            /\ (pc[p] = "get_select" /\ l_rconns[p] = "nil" /\ Steps(p))
                  => /\ pc'[p] = "idle"
                     /\ ret' = [p |-> p, op |-> "Get", out |-> "ErrClosed",
                                via |-> "nil_rconns", val |-> 0]
                     /\ created' = created
                     /\ chBuf' = chBuf
                     /\ handles' = handles
            /\ (pc[p] = "len_read" /\ l_rconns[p] = "nil" /\ Steps(p))
                  => /\ pc'[p] = "idle"
                     /\ ret'.op = "Len"
                     /\ ret'.val = 0
      ]_vars

\* a Get that started after the shutdown returned the closed-pool error while
\* connections of the shut down pool are still checked out
C4_Witness ==
    /\ Cleared
    /\ ret.op = "Get"
    /\ ret.out = "ErrClosed"
    /\ ret.via = "nil_rconns"
    /\ shutdown.returned
    /\ CheckedOut > 0

\* ---- C5 ----------------------------------------------------------------------
\* C5 as claimed: when the Close that shut the pool down has returned, every
\* connection idle at its capture-and-clear step was closed exactly once, and
\* no other Close drains.
C5_IdleAtShutdownClosedOnce ==
    /\ shutdown.n <= 1
    /\ Cardinality({p \in Procs : pc[p] = "close_drain"}) <= 1
    /\ shutdown.returned => \A c \in shutdown.idle : closeCount[c] = 1

\* C5 as amended: when the Close that shut the pool down has returned, every
\* connection idle at its capture-and-clear step was closed exactly once by the
\* drain, except those a Get that had read the buffer reference before the
\* clear received from the buffer: these are handed to that Get's caller and
\* are closed at most once; no other Close, concurrent ones included, drains,
\* and no connection is closed twice.
C5_IdleAtShutdownClosedOrTaken ==
    /\ shutdown.n <= 1
    /\ Cardinality({p \in Procs : pc[p] = "close_drain"}) <= 1
    /\ \A c \in shutdown.idle : closeCount[c] <= 1
    /\ shutdown.taken \subseteq shutdown.idle
    /\ shutdown.returned =>
          \A c \in shutdown.idle \ shutdown.taken : closeCount[c] = 1

\* a second Close returned as a no-op after the first drained and closed an
\* idle connection
C5_Witness ==
    /\ shutdown.returned
    /\ \E c \in shutdown.idle \ shutdown.taken : closeCount[c] = 1
    /\ ret.op = "Close"
    /\ ret.via = "noop"

\* ---- C6 ----------------------------------------------------------------------
\* the pool's Close has returned, no call is in progress, every handle Get
\* returned has been closed
Quiescent ==
    /\ shutdown.returned
    /\ \A p \in Procs : pc[p] \in {"idle", "panicked"}
    /\ OpenHandles = {}

\* C6: no connection is closed twice, and once the pool's Close has returned
\* and every handle returned by Get has been closed, every connection that
\* exists (initial fill and factory calls of Get, those in progress at the
\* shutdown included) has had its Close() invoked exactly once.
C6_NoConnectionLeaked ==
    /\ \A c \in Conns : closeCount[c] <= 1
    /\ Quiescent => \A c \in 1..created : closeCount[c] = 1

\* quiescence after a shutdown that found a connection idle and another one
\* checked out or still being created
C6_Witness ==
    /\ Quiescent
    /\ shutdown.idle # {}
    /\ \E c \in 1..created : c \notin shutdown.idle
    /\ \A c \in 1..created : closeCount[c] = 1

\* ---- C7 ----------------------------------------------------------------------
\* a handle Close (not marked unusable) has just returned, it closed the handle
\* of the caller's preceding Get on an open pool, and no other goroutine took
\* a step since that Get started
SoloGetCloseDone ==
    /\ ret.op = "HClose"
    /\ ret.via # "unusable"
    /\ solo.p = ret.p
    /\ solo.h # 0

\* C7 as claimed: such a Get-then-Close leaves Len() as it was before the Get.
C7_GetCloseKeepsLen == SoloGetCloseDone => LenNow = solo.len0

\* C7 as amended: such a Get-then-Close leaves Len() as it was before the Get
\* when the idle buffer was not empty; when it was empty Get creates a
\* connection, Close inserts it, and Len() is 1.
C7_GetCloseKeepsLenUnlessEmpty ==
    SoloGetCloseDone => LenNow = (IF solo.len0 = 0 THEN 1 ELSE solo.len0)

\* the episode ended on a pool whose buffer was not empty
C7_Witness ==
    /\ SoloGetCloseDone
    /\ solo.len0 > 0
    /\ ret.via = "insert"

\* ---- C8 ----------------------------------------------------------------------
\* C8: Get on a pool that is open reuses before it creates.  With a connection
\* in the buffer its select step removes exactly the oldest one, wraps it in a
\* fresh handle that it returns, lowers Len() by one and does not reach the
\* factory.  With an empty buffer the select step goes on to the factory call
\* and changes neither buffer nor handles; the factory is called once, and when
\* it returns a connection Get returns it wrapped in a fresh handle, the buffer
\* untouched by this Get.
C8_GetReusesBeforeItCreates ==
    [][ \A p \in Procs :
          /\ (pc[p] = "get_select" /\ l_rconns[p] = "chan" /\ rconns = "chan"
                /\ chBuf # << >> /\ Steps(p))
                => /\ chBuf' = Tail(chBuf)
                   /\ LenNow' = LenNow - 1
                   /\ handles' = Append(handles, [conn |-> Head(chBuf),
                                                  unusable |-> FALSE, closes |-> 0])
                   /\ ret' = [p |-> p, op |-> "Get", out |-> "handle", via |-> "reuse",
                              val |-> Len(handles')]
                   /\ created' = created
                   /\ pc'[p] = "idle"
          /\ (pc[p] = "get_select" /\ l_rconns[p] = "chan" /\ rconns = "chan"
                /\ chBuf = << >> /\ Steps(p))
                => /\ pc'[p] = "get_factory"
                   /\ chBuf' = chBuf
                   /\ handles' = handles
                   /\ created' = created
          /\ (pc[p] = "get_factory" /\ factory = "func" /\ Steps(p))
                => /\ pc'[p] = "get_created"
                   /\ chBuf' = chBuf
                   /\ created' = created
          /\ (pc[p] = "get_created" /\ Steps(p))
                => /\ pc'[p] = "idle"
                   /\ chBuf' = chBuf
                   /\ ret'.op = "Get"
                   /\ ret'.via = "create"
                   /\ \/ /\ ret'.out = "factoryErr"
                         /\ created' = created
                         /\ handles' = handles
                      \/ /\ ret'.out = "handle"
                         /\ created' = created + 1
                         /\ handles' = Append(handles, [conn |-> created + 1,
                                                        unusable |-> FALSE, closes |-> 0])
                         /\ ret'.val = Len(handles')
      ]_vars

\* after earlier Gets drained the buffer of an open pool, one more Get returned
\* a handle on a connection the factory just created, Len() being 0
C8_Witness ==
    /\ rconns = "chan"
    /\ ret.op = "Get"
    /\ ret.out = "handle"
    /\ ret.via = "create"
    /\ \E h \in DOMAIN handles : h < ret.val /\ handles[h].closes = 0
    /\ LenNow = 0

C11_CloseOnClosedOrFullIsError ==
    (ret.op = "HClose" /\ ret.via \in {"closed", "full"}) => ret.out # "nil"

\* ---- C12 ---------------------------------------------------------------------
\* the Close of a handle marked unusable has just returned
UnusableCloseDone == ret.op = "HClose" /\ ret.via = "unusable"

\* C12 as claimed: the Close of a handle marked unusable closes the connection
\* once, does not insert it, and leaves Len() exactly one less than the Close
\* of the same handle without the mark would have left it in the same state.
C12_UnusableCloseOneLess ==
    UnusableCloseDone =>
        /\ closeCount[handles[ret.val].conn] = 1
        /\ \A i \in DOMAIN chBuf : chBuf[i] # handles[ret.val].conn
        /\ LenNow = LenAfterPut(rconns, chBuf) - 1

\* C12 as amended: the Close of a handle marked unusable invokes the wrapped
\* connection's Close() exactly once, returns its outcome, and leaves buffer
\* and Len() as they are (where the unmarked Close would have inserted, Len()
\* is therefore one less; where it would have found the pool closed or the
\* buffer full, Len() is the same).  In the episode Get, MarkUnusable, Close
\* with no other operation in between, Len() ends one below its value after
\* the unmarked episode of C7: len0 - 1 on a non-empty buffer, 0 on an empty
\* one.
C12_UnusableCloseDestroys ==
    /\ [](UnusableCloseDone =>
            /\ closeCount[handles[ret.val].conn] = 1
            /\ \A i \in DOMAIN chBuf : chBuf[i] # handles[ret.val].conn
            /\ (solo.p = ret.p /\ solo.h = ret.val)
                  => LenNow = (IF solo.len0 = 0 THEN 1 ELSE solo.len0) - 1)
    /\ [][ \A h \in DOMAIN handles :
             (handles[h].unusable /\ handles'[h].closes # handles[h].closes) =>
                 /\ closeCount' = [closeCount EXCEPT ![handles[h].conn] = @ + 1]
                 /\ lastClose'.conn = handles[h].conn
                 /\ ret'.op = "HClose"
                 /\ ret'.via = "unusable"
                 /\ ret'.out = lastClose'.out
                 /\ chBuf' = chBuf
                 /\ rconns' = rconns
                 /\ LenNow' = LenNow
                 /\ pc' = pc
         ]_vars

\* Get, MarkUnusable, Close on a non-empty open pool left Len() one lower than
\* before the Get
C12_Witness ==
    /\ UnusableCloseDone
    /\ solo.p = ret.p
    /\ solo.h = ret.val
    /\ solo.len0 > 0
    /\ rconns = "chan"
    /\ LenNow = solo.len0 - 1

\* ---- C13 ---------------------------------------------------------------------
\* C13: NewChannelPool with a factory that never fails returns a pool exactly
\* when initialCap >= 0, maxCap > 0 and initialCap <= maxCap; it never blocks;
\* on success the factory was invoked initialCap times and Len() = initialCap;
\* otherwise it returns the invalid-configuration error without invoking the
\* factory.
C13_NewValidatesAndFills ==
    cons.failAt = 0 =>
        /\ cons.state # "blocked"
        /\ cons.state = "done" =>
            /\ cons.out = "pool" <=> (/\ cons.initialCap >= 0
                                      /\ cons.maxCap > 0
                                      /\ cons.initialCap <= cons.maxCap)
            /\ cons.out = "pool" =>
                /\ cons.calls = cons.initialCap
                /\ created = cons.initialCap
                /\ rconns = "chan"
                /\ LenNow = cons.initialCap
            /\ cons.out # "pool" =>
                /\ cons.out = "invalid"
                /\ cons.calls = 0
                /\ created = 0

\* a pool was built and filled with two or more connections
C13_Witness ==
    /\ cons.failAt = 0
    /\ cons.state = "done"
    /\ cons.out = "pool"
    /\ cons.initialCap >= 2
    /\ LenNow = cons.initialCap

\* ---- C14 ---------------------------------------------------------------------
\* the factory fails during the fill of a valid configuration
FillFails ==
    /\ ValidCaps(cons.initialCap, cons.maxCap)
    /\ cons.failAt >= 1
    /\ cons.failAt <= cons.initialCap

\* C14: when the k-th factory invocation of the fill fails, the factory is not
\* invoked again, and when NewChannelPool returns it returns the error and no
\* pool, and each of the k-1 connections created before has been closed exactly
\* once (and no other).
C14_FailedFillClosesCreated ==
    FillFails =>
        /\ cons.calls <= cons.failAt
        /\ created < cons.failAt
        /\ cons.state # "blocked"
        /\ cons.state = "done" =>
            /\ cons.out = "factoryErr"
            /\ cons.calls = cons.failAt
            /\ created = cons.failAt - 1
            /\ \A c \in Conns : closeCount[c] = IF c < cons.failAt THEN 1 ELSE 0
            /\ chBuf = << >>
            /\ Cleared

\* the second invocation failed and NewChannelPool returned: one connection closed
C14_Witness ==
    /\ FillFails
    /\ cons.failAt >= 2
    /\ cons.state = "done"
    /\ cons.out = "factoryErr"
    /\ closeCount[1] = 1

\* ---- C15 ---------------------------------------------------------------------
\* C15: a factory failure in Get is returned to that Get's caller with no
\* handle and changes nothing of the pool: rconns, factory, the buffer, Len(),
\* the connections and the handles stay as they were; a Get whose factory call
\* succeeds, also after such a failure, returns a fresh handle on the new
\* connection.
C15_GetFactoryFailureNotFatal ==
    [][ \A p \in Procs :
          (pc[p] = "get_created" /\ pc'[p] # "get_created") =>
              \/ /\ ret' = [p |-> p, op |-> "Get", out |-> "factoryErr",
                            via |-> "create", val |-> 0]
                 /\ pc'[p] = "idle"
                 /\ handles' = handles
                 /\ created' = created
                 /\ closeCount' = closeCount
                 /\ rconns' = rconns
                 /\ factory' = factory
                 /\ chBuf' = chBuf
                 /\ chClosed' = chClosed
                 /\ LenNow' = LenNow
              \/ /\ ret'.p = p
                 /\ ret'.op = "Get"
                 /\ ret'.out = "handle"
                 /\ pc'[p] = "idle"
                 /\ created' = created + 1
                 /\ ret'.val = Len(handles')
                 /\ handles'[ret'.val] = wrapRconn(created')
                 /\ rconns' = rconns
      ]_vars

\* a Get on the open pool with an empty buffer has just returned the factory's
\* error; the pool is still open and empty
C15_Witness ==
    /\ ret.op = "Get"
    /\ ret.out = "factoryErr"
    /\ pc[ret.p] = "idle"
    /\ rconns = "chan"
    /\ factory = "func"
    /\ chBuf = << >>
    /\ ~chClosed

\* ---- C16 ---------------------------------------------------------------------
\* every call that has started comes to an end: it returns or it panics
EveryCallEnds ==
    \A p \in Procs :
        (pc[p] \notin {"idle", "panicked"}) ~> (pc[p] \in {"idle", "panicked"})

\* C16: under fair scheduling every invocation of Get, of a handle's Close, of
\* the pool's Close and of Len eventually returns to its caller.
C16_EveryCallReturns ==
    \A p \in Procs : (pc[p] # "idle") ~> (pc[p] = "idle")

\* ---- C17 ---------------------------------------------------------------------
\* C17: a step that sets a handle's unusable flag sets it on that handle alone
\* and changes nothing else: the other fields of the handle, every other
\* handle, the buffer, Len(), rconns and factory, the channel's closed state
\* and every goroutine's position stay as they were, and no connection's
\* Close() is invoked.
C17_MarkUnusableOnlySetsFlag ==
    [][ \A h \in DOMAIN handles :
          (~handles[h].unusable /\ handles'[h].unusable) =>
              /\ handles' = [handles EXCEPT ![h].unusable = TRUE]
              /\ chBuf' = chBuf
              /\ chClosed' = chClosed
              /\ LenNow' = LenNow
              /\ rconns' = rconns
              /\ factory' = factory
              /\ mu' = mu
              /\ created' = created
              /\ closeCount' = closeCount
              /\ lastClose' = NoClose
              /\ pc' = pc
      ]_vars

\* one of two checked-out handles has been marked, the other has not; the
\* marked handle's connection is not closed and the pool is open
C17_Witness ==
    \E h, g \in OpenHandles :
        /\ handles[h].unusable
        /\ ~handles[g].unusable
        /\ closeCount[handles[h].conn] = 0
        /\ rconns = "chan"

\* ---- C18 ---------------------------------------------------------------------
\* the buffer slots holding connection c
IdleSlots(c) == Cardinality({i \in DOMAIN chBuf : chBuf[i] = c})

\* the outstanding handles on connection c: those not yet closed by their
\* holder, and those whose Close is still on its way through put
Outstanding(c) ==
    Cardinality({h \in OpenHandles : handles[h].conn = c})
    + Cardinality({p \in Procs : pc[p] \in {"put_lock", "put_body"} /\ l_conn[p] = c})

\* C18: with each handle closed at most once, every connection the factory
\* created is in exactly one place: in one buffer slot, under one outstanding
\* handle, or closed, and closed once; a handle Get has just returned wraps a
\* connection that is not closed and that no other handle holds.
C18_ExclusiveOwnership ==
    /\ \A c \in 1..created :
          /\ closeCount[c] <= 1
          /\ IdleSlots(c) + Outstanding(c) + closeCount[c] = 1
    /\ \A c \in Conns \ (1..created) :
          IdleSlots(c) + Outstanding(c) + closeCount[c] = 0
    /\ (ret.op = "Get" /\ ret.out = "handle") =>
          /\ ret.val \in OpenHandles
          /\ closeCount[handles[ret.val].conn] = 0
          /\ IdleSlots(handles[ret.val].conn) = 0
          /\ \A h \in OpenHandles \ {ret.val} :
                handles[h].conn # handles[ret.val].conn

\* Get has just handed out again a connection an earlier handle had put back
C18_Witness ==
    /\ ret.op = "Get"
    /\ ret.out = "handle"
    /\ ret.via = "reuse"
    /\ \E h \in DOMAIN handles :
          /\ h # ret.val
          /\ handles[h].conn = handles[ret.val].conn
          /\ handles[h].closes = 1

\* ---- C19 ---------------------------------------------------------------------
\* C19: put never sends on a channel the pool's Close has closed: whenever the
\* channel is closed, c.rconns is already nil, so no handle Close panics; put
\* inserts only while no Close has cleared c.rconns, so every inserted
\* connection is in the buffer the drain empties; once a draining Close has
\* returned the buffer is empty for good.
C19_PutNeverSendsOnClosedBuffer ==
    /\ chClosed => rconns = "nil"
    /\ ret.op = "HClose" => ret.out # "panic"
    /\ (ret.op = "HClose" /\ ret.via = "insert") =>
          /\ ~chClosed
          /\ rconns = "chan"
          /\ shutdown.n = 0
          /\ ret.val \in {chBuf[i] : i \in DOMAIN chBuf}
    /\ shutdown.returned => chBuf = << >>

\* a handle's Close ran its put while the pool's Close was between its clear
\* and the end of its drain: it found the pool closed and closed the connection
C19_Witness ==
    /\ ret.op = "HClose"
    /\ ret.via = "closed"
    /\ closeCount[ret.val] = 1
    /\ \E q \in Procs : pc[q] \in {"close_check", "close_drain"}

\* ---- C20 ---------------------------------------------------------------------
\* C20: also when callers close a handle twice, a connection never occupies
\* two buffer slots and is never held through two open handles at once.
C20_SecondCloseHasNoEffect ==
    \A c \in Conns :
        /\ IdleSlots(c) <= 1
        /\ Cardinality({h \in OpenHandles : handles[h].conn = c}) <= 1
====
